---- MODULE Spec2Model ----
(***************************************************************************)
(* FX hedging case study: yield-curve interpolation, unhedged and hedged   *)
(* valuation, risk metrics, Heston path simulation and calibration.        *)
(*                                                                         *)
(* Real numbers are fixed-point integers:                                  *)
(*   maturities / tenors   1/100 year                                      *)
(*   interest rates        1/10000 (basis points)                          *)
(*   FX rates, strikes     1/10000                                         *)
(*   discount factors      1/10000                                         *)
(*   notionals             millions of EUR                                 *)
(*   NPVs, premia          notional x 1e-8 (rate x discount factor)        *)
(* Every division rounds towards minus infinity (\div).                    *)
(***************************************************************************)
EXTENDS Integers, Sequences, FiniteSets, TLC

VARIABLES
    \* ---- RateCurve query (src/utils.py)
    rate_curve,     \* the dict passed to interpolate_rate, as a sequence of <<maturity, rate>>
    maturity,       \* the query maturity
    rate_out,       \* what the call returned: [kind |-> "none"] before the call
    \* ---- valuation (src/metrics.py, src/hedging.py)
    spot,           \* the spot rate the hedges were built with
    cash_flows,     \* the schedule: a sequence of <<date, notional>>, date in days after ANALYSIS_DATE
    fx_scenarios,   \* the scenario set: date -> N_SIMS simulated rates (a date may be absent)
    forward_hedge,  \* the ForwardHedge object
    option_hedge,   \* the OptionHedge object
    collar_hedge,   \* the CollarHedge object
    npv_call,       \* the valuation called last: "none", "unhedged", "forward", "option", "collar"
    npv_out,        \* what it returned, or the exception it raised
    \* ---- RiskSummarizer (src/metrics.py)
    npv_distribution,   \* the distribution summarised, a sequence of values in 1/100
    confidence,         \* the confidence level, in percent
    var_out,            \* what calculate_var returned
    cvar_out,           \* what calculate_cvar returned
    \* ---- PathSimulator (src/models.py, simulate_heston_paths)
    heston_args,    \* the arguments of the call, years given as days / 365
    heston_pc,      \* "idle", "loop", "done" (returned)
    step_i,         \* the loop variable i
    spot_paths,     \* the rate array, row i at index i + 1
    var_paths,      \* the variance array, row i at index i + 1
    var_pos_used,   \* var_pos of the last pass of the loop
    \* ---- runs of a program that imports src.models
    run_args,       \* the arguments every run passes
    run_out,        \* run -> what the run's call returned or raised
    \* ---- Calibrator (src/models.py, calibrate_heston_to_atm)
    atm_vols,       \* the market ATM vols, a sequence of <<maturity, vol>>
    calib_pc,       \* "idle", "minimize", "done"
    iterate_x,      \* the optimizer's current iterate, result.x when it returns
    trial_x,        \* the vector the objective was last called with
    obj_out,        \* what that call of the objective returned
    calib_out,      \* what calibrate_heston_to_atm returned
    \* ---- scenario extraction (src/models.py, simulate_fx_for_dates)
    extract_args,   \* the arguments of the call, dates in days after ANALYSIS_DATE
    extract_pc,     \* "idle", "loop", "done" (returned or raised)
    grid_paths,     \* the spot_paths array simulate_heston_paths returned, row i at index i + 1
    target_k,       \* the position of the loop over dates
    step_taken,     \* the local step of each pass so far
    extract_rates,  \* the dict fx_rates being filled: date -> row
    extract_out     \* what simulate_fx_for_dates returned, or the exception it raised

curveVars == <<rate_curve, maturity, rate_out>>
valuationVars == <<spot, cash_flows, fx_scenarios, forward_hedge, option_hedge,
                   collar_hedge, npv_call, npv_out>>

riskVars == <<npv_distribution, confidence, var_out, cvar_out>>

hestonVars == <<heston_args, heston_pc, step_i, spot_paths, var_paths, var_pos_used>>
runVars == <<run_args, run_out>>
calibVars == <<atm_vols, calib_pc, iterate_x, trial_x, obj_out, calib_out>>
extractVars == <<extract_args, extract_pc, grid_paths, target_k, step_taken, extract_rates,
                 extract_out>>

vars == <<curveVars, valuationVars, riskVars, hestonVars, runVars, calibVars, extractVars>>

\* --------------------------------------------------------------------------
\* helpers
\* --------------------------------------------------------------------------
None == [kind |-> "none"]
Ok(v) == [kind |-> "ok", value |-> v]
Raise(e) == [kind |-> e]

\* a slip: a lookup that defaults, as mapping.get(key, zeros) would
dict_getitem_or_zeros(mapping, key, zeros) ==
    IF key \in DOMAIN mapping THEN Ok(mapping[key]) ELSE Ok(zeros)

\* mapping[key] of a Python dict: KeyError for an absent key (zeros is what a
\* defaulting lookup would yield; the subscript has no default)
dict_getitem(mapping, key, zeros) ==
    IF key \in DOMAIN mapping THEN Ok(mapping[key]) ELSE Raise("KeyError")

Keys(curve) == [k \in 1 .. Len(curve) |-> curve[k][1]]
Values(curve) == [k \in 1 .. Len(curve) |-> curve[k][2]]

\* --------------------------------------------------------------------------
\* src/utils.py
\* --------------------------------------------------------------------------

\* numpy.interp(x, xp, fp) for increasing xp: the boundary value outside the
\* range, the stored value at a stored point, slope * (x - xp[j]) + fp[j] between.
np_interp(x, xp, fp) ==
    LET n == Len(xp) IN
    IF x > xp[n] THEN fp[n]
    ELSE IF x < xp[1] THEN fp[1]
    ELSE LET j == CHOOSE k \in 1 .. n :
                     /\ xp[k] <= x
                     /\ \A m \in 1 .. n : xp[m] <= x => m <= k
         IN IF j = n THEN fp[j]
            ELSE IF xp[j] = x THEN fp[j]
            ELSE fp[j] + ((fp[j + 1] - fp[j]) * (x - xp[j])) \div (xp[j + 1] - xp[j])

\* A plausible slip: the slope of the last segment continued past the last point.
interpolate_rate_extrapolating(m, curve) ==
    LET xp == Keys(curve)
        fp == Values(curve)
        n == Len(xp)
    IN IF n >= 2 /\ m > xp[n]
       THEN fp[n] + ((fp[n] - fp[n - 1]) * (m - xp[n])) \div (xp[n] - xp[n - 1])
       ELSE np_interp(m, xp, fp)

interpolate_rate(m, curve) == np_interp(m, Keys(curve), Values(curve))

\* Python's call binding for interpolate_rate(maturity, rate_curve): a call that
\* does not pass both positional arguments raises TypeError before the body runs.
call_interpolate_rate(args) ==
    IF Len(args) # 2 THEN Raise("TypeError")
    ELSE Ok(interpolate_rate(args[1], args[2]))

\* --------------------------------------------------------------------------
\* src/config.py
\* --------------------------------------------------------------------------
N_SIMS == 2             \* scenarios per run (10_000 in config.py, bounded here)

USD_RATES == <<(<<25, 435>>), (<<100, 387>>), (<<200, 369>>), (<<500, 377>>), (<<1000, 423>>)>>
EUR_RATES == <<(<<25, 200>>), (<<100, 210>>), (<<200, 223>>), (<<500, 250>>), (<<1000, 278>>)>>

Sims == 1 .. N_SIMS

\* --------------------------------------------------------------------------
\* numpy / scipy primitives in fixed point (1/10000)
\* --------------------------------------------------------------------------
Mul(a, b) == (a * b) \div 10000

\* np.exp(x): 1 + x + x^2/2 + x^3/6 for |x| <= 1/2, and exp(x/2)^2 beyond
RECURSIVE np_exp(_)
np_exp(x) ==
    IF x > 5000 \/ x < -5000
    THEN LET h == np_exp(x \div 2) IN Mul(h, h)
    ELSE 10000 + x + (x * x) \div 20000 + (((x * x) \div 10000) * x) \div 60000

\* np.log(q): with u = q - 1, u - u^2/2 + u^3/3
np_log(q) ==
    LET u == q - 10000
    IN u - (u * u) \div 20000 + (((u * u) \div 10000) * u) \div 30000

RECURSIVE isqrt_search(_, _, _)
isqrt_search(n, lo, hi) ==
    IF lo >= hi THEN lo
    ELSE LET mid == (lo + hi + 1) \div 2
         IN IF mid * mid <= n THEN isqrt_search(n, mid, hi)
            ELSE isqrt_search(n, lo, mid - 1)

\* floor(sqrt(n)) for 0 <= n < 2^30
isqrt(n) == isqrt_search(n, 0, 32767)

\* scipy.stats.norm.cdf: the standard normal distribution function, tabulated
\* every half standard deviation and interpolated in between
NormCdfX == <<-30000, -25000, -20000, -15000, -10000, -5000, 0,
              5000, 10000, 15000, 20000, 25000, 30000>>
NormCdfP == <<13, 62, 228, 668, 1587, 3085, 5000,
              6915, 8413, 9332, 9772, 9938, 9987>>
norm_cdf(x) == np_interp(x, NormCdfX, NormCdfP)

\* (date - ANALYSIS_DATE).days / 365.25, in 1/100 year
Tenor(days) == (days * 10000) \div 36525
\* (date - ANALYSIS_DATE).days / 365.0, in 1/100 year
Years365(days) == (days * 100) \div 365

\* np.exp(-rate * tenor): rate in 1/10000, tenor in 1/100 year
DiscountFactor(rate, tenor) == np_exp(-((rate * tenor) \div 100))

\* --------------------------------------------------------------------------
\* src/hedging.py: black_scholes_price
\* --------------------------------------------------------------------------
black_scholes_price(rate_spot, K, T, domestic_rate, foreign_rate, sigma, option_type) ==
    LET sqrtT == isqrt(T * 100)                       \* 1/100
        volT == (sigma * sqrtT) \div 100              \* sigma * sqrt(T)
        drift == domestic_rate - foreign_rate + (sigma * sigma) \div 20000
        d1 == ((np_log((rate_spot * 10000) \div K) + (drift * T) \div 100) * 10000) \div volT
        d2 == d1 - volT
        dfd == DiscountFactor(domestic_rate, T)
        dff == DiscountFactor(foreign_rate, T)
    IN IF option_type = "call"
       THEN Mul(Mul(rate_spot, dff), norm_cdf(d1)) - Mul(Mul(K, dfd), norm_cdf(d2))
       ELSE Mul(Mul(K, dfd), norm_cdf(-d2)) - Mul(Mul(rate_spot, dff), norm_cdf(-d1))

\* --------------------------------------------------------------------------
\* src/metrics.py: calculate_npv
\* --------------------------------------------------------------------------
Zeros == [s \in Sims |-> 0]
Full(v) == [s \in Sims |-> v]

\* The loop of calculate_npv from cash flow k on, npv being the sum so far.
\* The scenario lookup raises KeyError for an absent date; the call
\* interpolate_rate(years) passes one argument.
RECURSIVE calculate_npv_from(_, _, _, _)
calculate_npv_from(simulated_fx, flows, k, npv) ==
    IF k > Len(flows) THEN Ok(npv)
    ELSE LET cf_date == flows[k][1]
             eur_amount == flows[k][2]
             looked == dict_getitem(simulated_fx, cf_date, Zeros)
         IN IF looked.kind # "ok" THEN looked
            ELSE LET fx_rates == looked.value
                     usd_amount == [s \in Sims |-> eur_amount * fx_rates[s]]
                     years == Years365(cf_date)
                     rate == call_interpolate_rate(<<years>>)
                 IN IF rate.kind # "ok" THEN rate
                    ELSE LET discount_factor == DiscountFactor(rate.value, years)
                         IN calculate_npv_from(simulated_fx, flows, k + 1,
                                [s \in Sims |-> npv[s] + usd_amount[s] * discount_factor])

calculate_npv(simulated_fx, flows) == calculate_npv_from(simulated_fx, flows, 1, Zeros)

\* --------------------------------------------------------------------------
\* src/hedging.py: ForwardHedge
\* --------------------------------------------------------------------------
PositiveDates(flows) == {flows[k][1] : k \in {j \in 1 .. Len(flows) : flows[j][2] > 0}}

ForwardLockedRate(spot_rate, cf_date) ==
    LET mat == Tenor(cf_date)
        usd_rate == interpolate_rate(mat, USD_RATES)
        eur_rate == interpolate_rate(mat, EUR_RATES)
    IN Mul(spot_rate, np_exp(((usd_rate - eur_rate) * mat) \div 100))

ForwardHedge_init(spot_rate, cf_schedule) ==
    [spot_rate |-> spot_rate,
     cf_schedule |-> cf_schedule,
     locked_rates |-> [d \in PositiveDates(cf_schedule) |-> ForwardLockedRate(spot_rate, d)],
     total_cost |-> 0]

ForwardHedge_hedged_paths(self, fx_paths) ==
    [d \in DOMAIN fx_paths |->
        IF d \in DOMAIN self.locked_rates THEN Full(self.locked_rates[d]) ELSE fx_paths[d]]

ForwardHedge_hedge(self, fx_paths) ==
    calculate_npv(ForwardHedge_hedged_paths(self, fx_paths), self.cf_schedule)

\* --------------------------------------------------------------------------
\* src/hedging.py: OptionHedge
\* --------------------------------------------------------------------------
\* premia are priced per unit of notional in 1/10000 and kept in NPV units (x 10000)
RECURSIVE OptionHedge_premium_from(_, _, _, _)
OptionHedge_premium_from(fx_spot, vol_surface, schedule, k) ==
    IF k > Len(schedule) THEN 0
    ELSE LET flow_date == schedule[k][1]
             eur_amount == schedule[k][2]
             tenor == Tenor(flow_date)
             r_usd == interpolate_rate(tenor, USD_RATES)
             r_eur == interpolate_rate(tenor, EUR_RATES)
             volatility == np_interp(tenor, Keys(vol_surface), Values(vol_surface))
             option_premium ==
                 black_scholes_price(fx_spot, fx_spot, tenor, r_usd, r_eur, volatility, "put")
         IN (IF eur_amount > 0 THEN eur_amount * option_premium * 10000 ELSE 0)
            + OptionHedge_premium_from(fx_spot, vol_surface, schedule, k + 1)

OptionHedge_init(fx_spot, vol_surface, payment_schedule) ==
    [fx_spot |-> fx_spot,
     vol_surface |-> vol_surface,
     payment_schedule |-> payment_schedule,
     premium_paid |-> OptionHedge_premium_from(fx_spot, vol_surface, payment_schedule, 1)]

NpMaximum(v, floor) == [s \in Sims |-> IF v[s] >= floor THEN v[s] ELSE floor]
NpMinimum(v, cap) == [s \in Sims |-> IF v[s] <= cap THEN v[s] ELSE cap]

\* a slip: the put floor applied to every flow, outflows included
OptionHedge_usd_proceeds_all(self, eur_amount, fx_rates) ==
    [s \in Sims |-> eur_amount * NpMaximum(fx_rates, self.fx_spot)[s]]

OptionHedge_usd_proceeds(self, eur_amount, fx_rates) ==
    IF eur_amount > 0
    THEN [s \in Sims |-> eur_amount * NpMaximum(fx_rates, self.fx_spot)[s]]
    ELSE [s \in Sims |-> eur_amount * fx_rates[s]]

RECURSIVE OptionHedge_hedge_from(_, _, _, _)
OptionHedge_hedge_from(self, simulated_fx, k, present_value) ==
    IF k > Len(self.payment_schedule)
    THEN Ok([s \in Sims |-> present_value[s] - self.premium_paid])
    ELSE LET flow_date == self.payment_schedule[k][1]
             eur_amount == self.payment_schedule[k][2]
             fx_rates == dict_getitem(simulated_fx, flow_date, Zeros)
         IN IF fx_rates.kind # "ok" THEN fx_rates
            ELSE LET usd_proceeds ==
                         OptionHedge_usd_proceeds(self, eur_amount, fx_rates.value)
                     tenor == Tenor(flow_date)
                     discount_rate == interpolate_rate(tenor, USD_RATES)
                     discount_factor == DiscountFactor(discount_rate, tenor)
                 IN OptionHedge_hedge_from(self, simulated_fx, k + 1,
                        [s \in Sims |-> present_value[s] + usd_proceeds[s] * discount_factor])

OptionHedge_hedge(self, simulated_fx) == OptionHedge_hedge_from(self, simulated_fx, 1, Zeros)

\* --------------------------------------------------------------------------
\* src/hedging.py: CollarHedge
\* --------------------------------------------------------------------------
PUT_LEVEL == 95         \* put_level = 0.95, in percent
CALL_LEVEL == 105       \* call_level = 1.05, in percent

RECURSIVE CollarHedge_cost_from(_, _, _, _, _, _)
CollarHedge_cost_from(current_spot, put_strike, call_strike, market_vols, flows, k) ==
       IF k > Len(flows) THEN 0
       ELSE LET payment_date == flows[k][1]
                notional == flows[k][2]
                years_to_expiry == Tenor(payment_date)
                domestic_r == interpolate_rate(years_to_expiry, USD_RATES)
                foreign_r == interpolate_rate(years_to_expiry, EUR_RATES)
                implied_vol == np_interp(years_to_expiry, Keys(market_vols), Values(market_vols))
                put_cost == black_scholes_price(current_spot, put_strike, years_to_expiry,
                                                domestic_r, foreign_r, implied_vol, "put")
                call_proceeds == black_scholes_price(current_spot, call_strike, years_to_expiry,
                                                     domestic_r, foreign_r, implied_vol, "call")
                net_premium == put_cost - call_proceeds
                abs_notional == IF notional >= 0 THEN notional ELSE -notional
            IN (IF notional > 0 THEN abs_notional * net_premium * 10000 ELSE 0)
               + CollarHedge_cost_from(current_spot, put_strike, call_strike,
                                       market_vols, flows, k + 1)

CollarHedge_init(current_spot, market_vols, flows) ==
    LET put_strike == (current_spot * PUT_LEVEL) \div 100
        call_strike == (current_spot * CALL_LEVEL) \div 100
    IN [current_spot |-> current_spot,
        market_vols |-> market_vols,
        cash_flows |-> flows,
        put_strike |-> put_strike,
        call_strike |-> call_strike,
        net_cost |-> CollarHedge_cost_from(current_spot, put_strike, call_strike,
                                           market_vols, flows, 1)]

\* np.clip(a, a_min, a_max) = minimum(a_max, maximum(a, a_min))
NpClip(v, lo, hi) == NpMinimum(NpMaximum(v, lo), hi)

\* a slip: the sold call forgotten, only the put floor applied
CollarHedge_usd_converted_uncapped(self, notional, scenario_rates) ==
    IF notional > 0
    THEN [s \in Sims |-> notional * NpMaximum(scenario_rates, self.put_strike)[s]]
    ELSE [s \in Sims |-> notional * scenario_rates[s]]

CollarHedge_usd_converted(self, notional, scenario_rates) ==
    IF notional > 0
    THEN [s \in Sims |->
            notional * NpClip(scenario_rates, self.put_strike, self.call_strike)[s]]
    ELSE [s \in Sims |-> notional * scenario_rates[s]]

RECURSIVE CollarHedge_hedge_from(_, _, _, _)
CollarHedge_hedge_from(self, scenarios, k, npv_result) ==
    IF k > Len(self.cash_flows)
    THEN Ok([s \in Sims |-> npv_result[s] - self.net_cost])
    ELSE LET payment_date == self.cash_flows[k][1]
             notional == self.cash_flows[k][2]
             scenario_rates == dict_getitem(scenarios, payment_date, Zeros)
         IN IF scenario_rates.kind # "ok" THEN scenario_rates
            ELSE LET usd_converted ==
                         CollarHedge_usd_converted(self, notional, scenario_rates.value)
                     years_to_expiry == Tenor(payment_date)
                     disc_rate == interpolate_rate(years_to_expiry, USD_RATES)
                     pv_factor == DiscountFactor(disc_rate, years_to_expiry)
                 IN CollarHedge_hedge_from(self, scenarios, k + 1,
                        [s \in Sims |-> npv_result[s] + usd_converted[s] * pv_factor])

CollarHedge_hedge(self, scenarios) == CollarHedge_hedge_from(self, scenarios, 1, Zeros)

\* --------------------------------------------------------------------------
\* valuation: the inputs and the calls
\* --------------------------------------------------------------------------
MaxFlows == 2           \* cash flows of a schedule

FlowDates == {61, 1887}                 \* 2025-10-01 and 2030-10-01, days after 2025-08-01
Notionals == {-1, 2}                    \* millions of EUR, an outflow and an inflow
Spots == {11000}                        \* test_spot = 1.10
SimRates == {9000, 10480, 12000}        \* below, inside and above the collar
VolSurface == <<(<<100, 600>>), (<<500, 700>>)>>

Schedules == UNION {[1 .. n -> FlowDates \X Notionals] : n \in 1 .. MaxFlows}
ScenarioSets == UNION {[D -> [Sims -> SimRates]] : D \in SUBSET FlowDates}

ValuationInit ==
    /\ spot \in Spots
    /\ cash_flows \in Schedules
    /\ fx_scenarios \in ScenarioSets
    /\ forward_hedge = ForwardHedge_init(spot, cash_flows)
    /\ option_hedge = OptionHedge_init(spot, VolSurface, cash_flows)
    /\ collar_hedge = CollarHedge_init(spot, VolSurface, cash_flows)
    /\ npv_call = "none"
    /\ npv_out = None

ValuationIdle ==
    /\ spot = 0
    /\ cash_flows = <<>>
    /\ fx_scenarios = <<>>
    /\ forward_hedge = None
    /\ option_hedge = None
    /\ collar_hedge = None
    /\ npv_call = "none"
    /\ npv_out = None

ValuationInputs == <<spot, cash_flows, fx_scenarios, forward_hedge, option_hedge, collar_hedge>>

\* pv_results = calculate_npv(rate_paths, CASH_FLOWS)
CallCalculateNpv ==
    /\ cash_flows # <<>>
    /\ npv_call' = "unhedged"
    /\ npv_out' = calculate_npv(fx_scenarios, cash_flows)
    /\ UNCHANGED ValuationInputs
    /\ UNCHANGED <<curveVars, riskVars, hestonVars, runVars, calibVars, extractVars>>

\* fwd_npv = forward_hedge.hedge(fx_scenarios)
CallForwardHedge ==
    /\ cash_flows # <<>>
    /\ npv_call' = "forward"
    /\ npv_out' = ForwardHedge_hedge(forward_hedge, fx_scenarios)
    /\ UNCHANGED ValuationInputs
    /\ UNCHANGED <<curveVars, riskVars, hestonVars, runVars, calibVars, extractVars>>

\* opt_npv = option_hedge.hedge(fx_scenarios)
CallOptionHedge ==
    /\ cash_flows # <<>>
    /\ npv_call' = "option"
    /\ npv_out' = OptionHedge_hedge(option_hedge, fx_scenarios)
    /\ UNCHANGED ValuationInputs
    /\ UNCHANGED <<curveVars, riskVars, hestonVars, runVars, calibVars, extractVars>>

\* col_npv = collar_hedge.hedge(fx_scenarios)
CallCollarHedge ==
    /\ cash_flows # <<>>
    /\ npv_call' = "collar"
    /\ npv_out' = CollarHedge_hedge(collar_hedge, fx_scenarios)
    /\ UNCHANGED ValuationInputs
    /\ UNCHANGED <<curveVars, riskVars, hestonVars, runVars, calibVars, extractVars>>

ValuationNext ==
    \/ CallCalculateNpv
    \/ CallForwardHedge
    \/ CallOptionHedge
    \/ CallCollarHedge

\* --------------------------------------------------------------------------
\* RateCurve queries: the inputs
\* --------------------------------------------------------------------------
MaxPoints == 2          \* points of a curve
MaxYears == 5           \* largest maturity of a curve point, in years

CurveMaturities == {100 * k : k \in 1 .. MaxYears}
CurveRates == {-50, 200, 300}
QueryMaturities == {50 * k : k \in 0 .. 2 * (MaxYears + 5)}

StrictlyIncreasing(xp) == \A k \in 1 .. Len(xp) - 1 : xp[k] < xp[k + 1]

Curves ==
    UNION {{c \in [1 .. n -> CurveMaturities \X CurveRates] : StrictlyIncreasing(Keys(c))}
           : n \in 1 .. MaxPoints}

CurveInit ==
    /\ rate_curve \in Curves
    /\ maturity \in QueryMaturities
    /\ rate_out = None

CurveIdle ==
    /\ rate_curve = <<>>
    /\ maturity = 0
    /\ rate_out = None

\* rate = interpolate_rate(maturity, rate_curve)
QueryRate ==
    /\ rate_curve # <<>>
    /\ rate_out = None
    /\ rate_out' = Ok(interpolate_rate(maturity, rate_curve))
    /\ UNCHANGED <<rate_curve, maturity>>
    /\ UNCHANGED <<valuationVars, riskVars, hestonVars, runVars, calibVars, extractVars>>

\* --------------------------------------------------------------------------
\* src/metrics.py: calculate_var, calculate_cvar
\* --------------------------------------------------------------------------
\* np.percentile(a, q), q in percent: with the values sorted, the virtual index
\* h = q/100 * (n - 1), and the value lo + (hi - lo) * frac(h) between the
\* order statistics around it.
np_percentile(a, q) ==
    LET sorted == SortSeq(a, LAMBDA x, y : x < y)
        n == Len(a)
        h100 == q * (n - 1)
        lo == h100 \div 100
        frac == h100 % 100
    IN IF lo + 1 >= n THEN sorted[n]
       ELSE sorted[lo + 1] + ((sorted[lo + 2] - sorted[lo + 1]) * frac) \div 100

\* confidence in percent: (1 - confidence) * 100 is 100 - confidence
calculate_var(dist, conf) == np_percentile(dist, 100 - conf)

RECURSIVE SeqSum(_)
SeqSum(a) == IF a = <<>> THEN 0 ELSE a[1] + SeqSum(Tail(a))

\* ndarray.mean(): the mean of no values is nan
np_mean(a) == IF a = <<>> THEN [kind |-> "nan"] ELSE Ok(SeqSum(a) \div Len(a))

\* a slip: the tail taken strictly below the threshold
calculate_cvar_strict(dist, conf) ==
    LET var_threshold == calculate_var(dist, conf)
    IN np_mean(SelectSeq(dist, LAMBDA x : x < var_threshold))

calculate_cvar(dist, conf) ==
    LET var_threshold == calculate_var(dist, conf)
    IN np_mean(SelectSeq(dist, LAMBDA x : x <= var_threshold))

MaxDist == 5            \* points of an NPV distribution

DistValues == {-10000, -5000, 0, 5000, 10000}       \* -100 .. 100, in 1/100
Confidences == {0, 50, 80, 95, 99, 100}             \* percent

RiskInit ==
    /\ npv_distribution \in UNION {[1 .. n -> DistValues] : n \in 1 .. MaxDist}
    /\ confidence \in Confidences
    /\ var_out = None
    /\ cvar_out = None

RiskIdle ==
    /\ npv_distribution = <<>>
    /\ confidence = 0
    /\ var_out = None
    /\ cvar_out = None

\* calculate_var(npv_distribution, confidence)
CallCalculateVar ==
    /\ npv_distribution # <<>>
    /\ var_out = None
    /\ var_out' = Ok(calculate_var(npv_distribution, confidence))
    /\ UNCHANGED <<npv_distribution, confidence, cvar_out>>
    /\ UNCHANGED <<curveVars, valuationVars, hestonVars, runVars, calibVars, extractVars>>

\* calculate_cvar(npv_distribution, confidence)
CallCalculateCvar ==
    /\ npv_distribution # <<>>
    /\ cvar_out = None
    /\ cvar_out' = calculate_cvar(npv_distribution, confidence)
    /\ UNCHANGED <<npv_distribution, confidence, var_out>>
    /\ UNCHANGED <<curveVars, valuationVars, hestonVars, runVars, calibVars, extractVars>>

RiskNext == CallCalculateVar \/ CallCalculateCvar

\* --------------------------------------------------------------------------
\* src/models.py: simulate_heston_paths
\* variances, theta, v0 in 1/1000000; kappa, xi, rho in 1/100; shocks in whole
\* standard deviations; dt = 1/252
\* --------------------------------------------------------------------------
STEPS_PER_YEAR == 252   \* dt = 1/252

\* steps = int(years / dt) for years = days / 365.0
HestonSteps(days) == (days * STEPS_PER_YEAR) \div 365

\* a slip: the variance used without the floor at zero
heston_var_pos_unfloored(var_prev) == var_prev

\* var_pos = np.maximum(var_paths[i-1], 0)
heston_var_pos(var_prev) == NpMaximum(var_prev, 0)

\* np.sqrt(var_pos * dt), in 1/10000
SqrtVarDt(v) == isqrt((v * 100) \div STEPS_PER_YEAR)

\* one pass of the loop body: the rows i of both arrays from the rows i-1 and
\* the draws z1, z2
HestonStepRows(a, spot_prev, var_prev, z1, z2) ==
    LET dw_spot == z1
        dw_var == [s \in Sims |-> a.rho * z1[s] + isqrt(10000 - a.rho * a.rho) * z2[s]]
        var_pos == heston_var_pos(var_prev)
        drift == [s \in Sims |->
                    ((a.r_domestic - a.r_foreign) * 100 - var_pos[s] \div 2) \div STEPS_PER_YEAR]
        diffusion == [s \in Sims |-> SqrtVarDt(var_pos[s]) * dw_spot[s] * 100]
    IN [spot |-> [s \in Sims |->
                    Mul(spot_prev[s], np_exp((drift[s] + diffusion[s]) \div 100))],
        var |-> [s \in Sims |->
                    var_prev[s]
                    + (a.kappa * (a.theta - var_pos[s])) \div (100 * STEPS_PER_YEAR)
                    + (a.xi * SqrtVarDt(var_pos[s]) * dw_var[s]) \div 100],
        var_pos |-> var_pos]

\* rng.normal(0, 1, N_SIMS), call number n of a generator seeded with seed: the
\* stream is a fixed function of the seed (a small congruential stand-in for
\* the generator's own)
ShockValues == <<-4, -1, 0, 1, 4>>
rng_normal(seed, n) ==
    [s \in Sims |-> ShockValues[(((seed + 1) * (2 * ((n - 1) * N_SIMS + s) + 1)) % 5) + 1]]

RECURSIVE simulate_heston_from(_, _, _, _, _)
simulate_heston_from(a, seed, i, spot_rows, var_rows) ==
    IF i > HestonSteps(a.days) THEN <<spot_rows, var_rows>>
    ELSE LET z1 == rng_normal(seed, 2 * i - 1)
             z2 == rng_normal(seed, 2 * i)
             rows == HestonStepRows(a, spot_rows[i], var_rows[i], z1, z2)
         IN simulate_heston_from(a, seed, i + 1,
                                 Append(spot_rows, rows.spot), Append(var_rows, rows.var))

\* the whole call, for a generator seeded with seed; row i of the arrays is
\* element i + 1 of the sequences
simulate_heston_paths(a, seed) ==
    simulate_heston_from(a, seed, 1, <<Full(a.spot)>>, <<Full(a.v0)>>)

\* ---- the stepping loop, one action per pass
MaxHorizonDays == 3     \* longest simulated horizon, in days

HestonParams ==
    {[v0 |-> 40000, kappa |-> 200, theta |-> 40000, xi |-> 30, rho |-> -70],
     [v0 |-> 4000, kappa |-> 200, theta |-> 40000, xi |-> 30, rho |-> -70],
     [v0 |-> 1000, kappa |-> 10, theta |-> 500000, xi |-> 30, rho |-> 0],
     [v0 |-> 500000, kappa |-> 1000, theta |-> 1000, xi |-> 10, rho |-> 99]}
HestonRates == {<<377, 250>>, <<400, 250>>}     \* r_domestic, r_foreign
HestonSpots == {10000, 11000}
Shocks == {-4, 4}

HestonArgs ==
    {[spot |-> sp, v0 |-> p.v0, kappa |-> p.kappa, theta |-> p.theta, xi |-> p.xi,
      rho |-> p.rho, r_domestic |-> r[1], r_foreign |-> r[2], days |-> d]
        : sp \in HestonSpots, p \in HestonParams, r \in HestonRates, d \in 2 .. MaxHorizonDays}

HestonInit ==
    /\ heston_args \in HestonArgs
    /\ heston_pc = "idle"
    /\ step_i = 0
    /\ spot_paths = <<>>
    /\ var_paths = <<>>
    /\ var_pos_used = <<>>

HestonIdle ==
    /\ heston_args = None
    /\ heston_pc = "idle"
    /\ step_i = 0
    /\ spot_paths = <<>>
    /\ var_paths = <<>>
    /\ var_pos_used = <<>>

\* lines 13-20: the arrays allocated as zeros and their rows 0 set
HestonEnter ==
    /\ heston_args # None
    /\ heston_pc = "idle"
    /\ LET steps == HestonSteps(heston_args.days)
       IN /\ spot_paths' = [i \in 1 .. steps + 1 |->
                               IF i = 1 THEN Full(heston_args.spot) ELSE Zeros]
          /\ var_paths' = [i \in 1 .. steps + 1 |->
                               IF i = 1 THEN Full(heston_args.v0) ELSE Zeros]
    /\ step_i' = 1
    /\ heston_pc' = "loop"
    /\ UNCHANGED <<heston_args, var_pos_used>>
    /\ UNCHANGED <<curveVars, valuationVars, riskVars, runVars, calibVars, extractVars>>

\* lines 22-35: pass i of the loop; the seed's value being given nowhere, its
\* draws are any shocks
HestonStep ==
    /\ heston_pc = "loop"
    /\ step_i <= HestonSteps(heston_args.days)
    /\ \E z1, z2 \in [Sims -> Shocks] :
          LET rows == HestonStepRows(heston_args, spot_paths[step_i], var_paths[step_i], z1, z2)
          IN /\ spot_paths' = [spot_paths EXCEPT ![step_i + 1] = rows.spot]
             /\ var_paths' = [var_paths EXCEPT ![step_i + 1] = rows.var]
             /\ var_pos_used' = rows.var_pos
    /\ step_i' = step_i + 1
    /\ UNCHANGED <<heston_args, heston_pc>>
    /\ UNCHANGED <<curveVars, valuationVars, riskVars, runVars, calibVars, extractVars>>

\* line 37: return spot_paths, var_paths
HestonReturn ==
    /\ heston_pc = "loop"
    /\ step_i > HestonSteps(heston_args.days)
    /\ heston_pc' = "done"
    /\ UNCHANGED <<heston_args, step_i, spot_paths, var_paths, var_pos_used>>
    /\ UNCHANGED <<curveVars, valuationVars, riskVars, runVars, calibVars, extractVars>>

HestonNext == HestonEnter \/ HestonStep \/ HestonReturn

\* --------------------------------------------------------------------------
\* src/config.py, src/models.py line 6: importing the simulator
\* --------------------------------------------------------------------------
\* the names config.py binds
ConfigNamespace ==
    [n \in {"Path", "date", "PROJECT_ROOT", "DATA_DIR", "MARKET_DATA_FILE", "ANALYSIS_DATE",
            "BASE_CURRENCY", "QUOTE_CURRENCY", "FX_PAIR", "CASH_FLOWS", "N_SIMS",
            "USD_RATES", "EUR_RATES"} |-> IF n = "N_SIMS" THEN N_SIMS ELSE 0]

\* from <module> import <names>: ImportError when the module binds no such name
import_from(namespace, names) ==
    IF names \subseteq DOMAIN namespace
    THEN Ok([n \in names |-> namespace[n]])
    ELSE Raise("ImportError")

\* models.py line 6
models_import == import_from(ConfigNamespace, {"ANALYSIS_DATE", "N_SIMS", "RANDOM_SEED"})

\* one run of a program that imports src.models and calls simulate_heston_paths
run_simulation(a) ==
    IF models_import.kind # "ok" THEN models_import
    ELSE Ok(simulate_heston_paths(a, models_import.value["RANDOM_SEED"]))

MaxRuns == 2            \* independent runs compared

RunInit ==
    /\ run_args \in HestonArgs
    /\ run_out = [r \in 1 .. MaxRuns |-> None]

RunIdle ==
    /\ run_args = None
    /\ run_out = <<>>

RunSimulation(r) ==
    /\ run_out[r] = None
    /\ run_out' = [run_out EXCEPT ![r] = run_simulation(run_args)]
    /\ UNCHANGED run_args
    /\ UNCHANGED <<curveVars, valuationVars, riskVars, hestonVars, calibVars, extractVars>>

RunNext == \E r \in DOMAIN run_out : RunSimulation(r)

\* --------------------------------------------------------------------------
\* src/models.py: heston_atm_vol, calibrate_heston_to_atm
\* a parameter vector is <<v0, kappa, theta, xi, rho>>; volatilities in 1/10000,
\* objective values in 1/100000000
\* --------------------------------------------------------------------------
heston_atm_vol(v0, kappa, theta, xi, rho, years) ==
    LET kT == kappa * years                                   \* 1/10000
        ratio == ((10000 - np_exp(-kT)) * 10000) \div kT     \* (1 - exp(-kT)) / kT
        term1 == (v0 * (ratio \div 100)) \div 100
        term2 == (theta * ((10000 - ratio) \div 100)) \div 100
    IN isqrt((term1 + term2) * 100)

PENALTY == 2000000000   \* 1e10, saturated to the fixed-point range

RECURSIVE SquaredErrors(_, _, _)
SquaredErrors(params, vols, k) ==
    IF k > Len(vols) THEN 0
    ELSE LET model_vol == heston_atm_vol(params[1], params[2], params[3], params[4],
                                         params[5], vols[k][1])
         IN (model_vol - vols[k][2]) * (model_vol - vols[k][2])
            + SquaredErrors(params, vols, k + 1)

\* lines 54-65: the objective handed to the optimizer
objective(params, vols) ==
    LET v0 == params[1]
        kappa == params[2]
        theta == params[3]
        xi == params[4]
        rho == params[5]
    IN IF v0 <= 0 \/ theta <= 0 \/ xi <= 0 \/ kappa <= 0 THEN Ok(PENALTY)
       ELSE IF rho >= 100 \/ rho <= -100 THEN Ok(PENALTY)
       ELSE IF 2 * kappa * theta < xi * xi * 10000 THEN Ok(PENALTY)
       ELSE Ok(SquaredErrors(params, vols, 1))

CalibInitial == <<40000, 200, 40000, 30, -70>>
CalibBounds == <<(<<1000, 500000>>), (<<10, 1000>>), (<<1000, 500000>>), (<<1, 200>>), (<<-99, 99>>)>>

InBounds(x) == \A j \in 1 .. 5 : CalibBounds[j][1] <= x[j] /\ x[j] <= CalibBounds[j][2]

\* lines 72-74: the fitted vector returned as a dict, as the optimizer gave it
calibrate_result(x) ==
    Ok([v0 |-> x[1], kappa |-> x[2], theta |-> x[3], xi |-> x[4], rho |-> x[5]])

\* the vectors the optimizer is seen to try; the evaluations of a run stay inside
\* the bounds, the others are direct calls of the objective
TrialPoints == {0, 40000} \X {0, 10, 200} \X {1000, 40000} \X {0, 30, 200} \X {-100, -70}

CalibInit ==
    /\ atm_vols \in {<<(<<100, 600>>), (<<500, 700>>)>>, <<(<<100, 800>>), (<<500, 800>>)>>}
    /\ calib_pc = "idle"
    /\ iterate_x = <<>>
    /\ trial_x = <<>>
    /\ obj_out = None
    /\ calib_out = None

CalibIdle ==
    /\ atm_vols = <<>>
    /\ calib_pc = "idle"
    /\ iterate_x = <<>>
    /\ trial_x = <<>>
    /\ obj_out = None
    /\ calib_out = None

\* line 70: minimize(objective, initial, ...) starts from the initial guess
CalibEnter ==
    /\ atm_vols # <<>>
    /\ calib_pc = "idle"
    /\ calib_pc' = "minimize"
    /\ iterate_x' = CalibInitial
    /\ trial_x' = CalibInitial
    /\ obj_out' = objective(CalibInitial, atm_vols)
    /\ UNCHANGED <<atm_vols, calib_out>>
    /\ UNCHANGED <<curveVars, valuationVars, riskVars, hestonVars, runVars, extractVars>>

\* the optimizer evaluates the objective at a trial vector
OptimizerEvaluate ==
    /\ calib_pc = "minimize"
    /\ \E x \in TrialPoints :
          /\ trial_x' = x
          /\ obj_out' = objective(x, atm_vols)
    /\ UNCHANGED <<atm_vols, calib_pc, iterate_x, calib_out>>
    /\ UNCHANGED <<curveVars, valuationVars, riskVars, hestonVars, runVars, extractVars>>

\* the optimizer moves its iterate to the trial vector; which vectors inside the
\* bounds it accepts is the library's business, the bounds are all it is given
OptimizerAccept ==
    /\ calib_pc = "minimize"
    /\ InBounds(trial_x)
    /\ iterate_x' = trial_x
    /\ UNCHANGED <<atm_vols, calib_pc, trial_x, obj_out, calib_out>>
    /\ UNCHANGED <<curveVars, valuationVars, riskVars, hestonVars, runVars, extractVars>>

\* lines 70-74: minimize returns result.x, calibrate_heston_to_atm returns it
CalibReturn ==
    /\ calib_pc = "minimize"
    /\ calib_pc' = "done"
    /\ calib_out' = calibrate_result(iterate_x)
    /\ UNCHANGED <<atm_vols, iterate_x, trial_x, obj_out>>
    /\ UNCHANGED <<curveVars, valuationVars, riskVars, hestonVars, runVars, extractVars>>

CalibNext == CalibEnter \/ OptimizerEvaluate \/ OptimizerAccept \/ CalibReturn

\* --------------------------------------------------------------------------
\* src/models.py: simulate_fx_for_dates
\* a date is its number of days after ANALYSIS_DATE
\* --------------------------------------------------------------------------
\* mapping[key] = value
dict_setitem(mapping, key, value) ==
    [d \in DOMAIN mapping \cup {key} |-> IF d = key THEN value ELSE mapping[d]]

\* array[index] on the first axis: a negative index counts from the end, an
\* index outside the array raises
ndarray_getitem(rows, index) ==
    IF 0 <= index /\ index < Len(rows) THEN Ok(rows[index + 1])
    ELSE IF index < 0 /\ -index <= Len(rows) THEN Ok(rows[Len(rows) + index + 1])
    ELSE Raise("IndexError")

RECURSIVE MaxDays(_, _)
MaxDays(dates, k) ==
    IF k = Len(dates) THEN dates[k]
    ELSE LET rest == MaxDays(dates, k + 1)
         IN IF dates[k] > rest THEN dates[k] ELSE rest

\* line 93: step = int(days / 365.0 / dt); int() drops the fraction
ExtractStep(days) == (days * STEPS_PER_YEAR) \div 365

\* lines 81-86: the grid simulated to the latest requested date
ExtractGrid(a) ==
    simulate_heston_paths(
        [spot |-> a.spot, v0 |-> a.params.v0, kappa |-> a.params.kappa,
         theta |-> a.params.theta, xi |-> a.params.xi, rho |-> a.params.rho,
         r_domestic |-> a.r_domestic, r_foreign |-> a.r_foreign,
         days |-> MaxDays(a.dates, 1)],
        a.seed)[1]

MaxDates == 2           \* requested dates of a call
MaxOffsetDays == 5      \* latest requested date, in days after ANALYSIS_DATE

ExtractSeeds == {0, 1}
DateLists == UNION {[1 .. n -> 0 .. MaxOffsetDays] : n \in 1 .. MaxDates}

ExtractArgs ==
    {[spot |-> sp, params |-> p, r_domestic |-> r[1], r_foreign |-> r[2],
      dates |-> ds, seed |-> sd]
        : sp \in HestonSpots, p \in HestonParams, r \in HestonRates,
          ds \in DateLists, sd \in ExtractSeeds}

ExtractInit ==
    /\ extract_args \in ExtractArgs
    /\ extract_pc = "idle"
    /\ grid_paths = <<>>
    /\ target_k = 0
    /\ step_taken = <<>>
    /\ extract_rates = <<>>
    /\ extract_out = None

ExtractIdle ==
    /\ extract_args = None
    /\ extract_pc = "idle"
    /\ grid_paths = <<>>
    /\ target_k = 0
    /\ step_taken = <<>>
    /\ extract_rates = <<>>
    /\ extract_out = None

\* lines 81-89: the grid is simulated and the dict starts empty
ExtractEnter ==
    /\ extract_args # None
    /\ extract_pc = "idle"
    /\ grid_paths' = ExtractGrid(extract_args)
    /\ extract_rates' = <<>>
    /\ step_taken' = <<>>
    /\ target_k' = 1
    /\ extract_pc' = "loop"
    /\ UNCHANGED <<extract_args, extract_out>>
    /\ UNCHANGED <<curveVars, valuationVars, riskVars, hestonVars, runVars, calibVars>>

\* lines 91-94: one pass of the loop over dates
ExtractDate ==
    /\ extract_pc = "loop"
    /\ target_k <= Len(extract_args.dates)
    /\ LET days == extract_args.dates[target_k]
           step == ExtractStep(days)
           row == ndarray_getitem(grid_paths, step)
       IN /\ step_taken' = Append(step_taken, step)
          /\ IF row.kind = "ok"
             THEN /\ extract_rates' = dict_setitem(extract_rates, days, row.value)
                  /\ target_k' = target_k + 1
                  /\ UNCHANGED <<extract_pc, extract_out>>
             ELSE /\ extract_out' = row
                  /\ extract_pc' = "done"
                  /\ UNCHANGED <<extract_rates, target_k>>
    /\ UNCHANGED <<extract_args, grid_paths>>
    /\ UNCHANGED <<curveVars, valuationVars, riskVars, hestonVars, runVars, calibVars>>

\* line 96: return fx_rates
ExtractReturn ==
    /\ extract_pc = "loop"
    /\ target_k > Len(extract_args.dates)
    /\ extract_out' = Ok(extract_rates)
    /\ extract_pc' = "done"
    /\ UNCHANGED <<extract_args, grid_paths, target_k, step_taken, extract_rates>>
    /\ UNCHANGED <<curveVars, valuationVars, riskVars, hestonVars, runVars, calibVars>>

ExtractNext == ExtractEnter \/ ExtractDate \/ ExtractReturn

\* --------------------------------------------------------------------------
\* specifications
\* --------------------------------------------------------------------------
InitCurve == CurveInit /\ ValuationIdle /\ RiskIdle /\ HestonIdle /\ RunIdle /\ CalibIdle /\ ExtractIdle
SpecCurve == InitCurve /\ [][QueryRate]_vars

InitValuation == ValuationInit /\ CurveIdle /\ RiskIdle /\ HestonIdle /\ RunIdle /\ CalibIdle /\ ExtractIdle
SpecValuation == InitValuation /\ [][ValuationNext]_vars

InitRisk == RiskInit /\ CurveIdle /\ ValuationIdle /\ HestonIdle /\ RunIdle /\ CalibIdle /\ ExtractIdle
SpecRisk == InitRisk /\ [][RiskNext]_vars

\* the body of simulate_heston_paths, run with the names of line 6 bound
InitHeston == HestonInit /\ CurveIdle /\ ValuationIdle /\ RiskIdle /\ RunIdle /\ CalibIdle /\ ExtractIdle
SpecHeston == InitHeston /\ [][HestonNext]_vars

\* runs of a program that imports src.models as the repository has it
InitRun == RunInit /\ CurveIdle /\ ValuationIdle /\ RiskIdle /\ HestonIdle /\ CalibIdle /\ ExtractIdle
SpecRun == InitRun /\ [][RunNext]_vars

\* the body of calibrate_heston_to_atm
InitCalib == CalibInit /\ CurveIdle /\ ValuationIdle /\ RiskIdle /\ HestonIdle /\ RunIdle /\ ExtractIdle
SpecCalib == InitCalib /\ [][CalibNext]_vars

\* the body of simulate_fx_for_dates, run with the names of line 6 bound
InitExtract == ExtractInit /\ CurveIdle /\ ValuationIdle /\ RiskIdle /\ HestonIdle /\ RunIdle /\ CalibIdle
SpecExtract == InitExtract /\ [][ExtractNext]_vars

\* C7: for a curve with strictly increasing maturities and a non-negative query,
\* interpolate_rate returns the stored rate at a stored maturity, the nearest
\* boundary rate outside the range, and between two bracketing points the linear
\* interpolation (to within one fixed-point unit); {(1,0.02),(5,0.03)} gives
\* rate(1) = 0.02, rate(3) = 0.025, rate(10) = 0.03.
C7_InterpolateRateContract ==
    /\ rate_out.kind \in {"none", "ok"}
    /\ rate_out.kind = "ok" =>
        LET xp == Keys(rate_curve)
            fp == Values(rate_curve)
            n == Len(xp)
            r == rate_out.value
        IN /\ \A k \in 1 .. n : xp[k] = maturity => r = fp[k]
           /\ maturity < xp[1] => r = fp[1]
           /\ maturity > xp[n] => r = fp[n]
           /\ \A k \in 1 .. n - 1 :
                 (xp[k] < maturity /\ maturity < xp[k + 1]) =>
                    LET exact == (fp[k + 1] - fp[k]) * (maturity - xp[k])
                        got == (r - fp[k]) * (xp[k + 1] - xp[k])
                    IN got <= exact /\ exact < got + (xp[k + 1] - xp[k])
           /\ rate_curve = <<(<<100, 200>>), (<<500, 300>>)>> =>
                 /\ maturity = 100 => r = 200
                 /\ maturity = 300 => r = 250
                 /\ maturity = 1000 => r = 300

\* a query strictly between two points of different rates has been answered
C7_Witness ==
    /\ rate_out.kind = "ok"
    /\ Len(rate_curve) = 2
    /\ rate_curve[1][1] < maturity /\ maturity < rate_curve[2][1]
    /\ rate_curve[1][2] < rate_out.value /\ rate_out.value < rate_curve[2][2]

\* a query above the last maturity of a sloped curve has been answered
C7_WitnessAbove ==
    /\ rate_out.kind = "ok"
    /\ Len(rate_curve) = 2
    /\ maturity > rate_curve[2][1]
    /\ rate_curve[1][2] # rate_curve[2][2]

\* --------------------------------------------------------------------------
\* valuation: what the claims expect
\* --------------------------------------------------------------------------
AllDatesPresent == \A k \in 1 .. Len(cash_flows) : cash_flows[k][1] \in DOMAIN fx_scenarios
HasMissingDate == \E k \in 1 .. Len(cash_flows) : cash_flows[k][1] \notin DOMAIN fx_scenarios
AllFlowsPositive == \A k \in 1 .. Len(cash_flows) : cash_flows[k][2] > 0

Clamp(r, lo, hi) == IF r < lo THEN lo ELSE IF r > hi THEN hi ELSE r

\* the rate a valuation is expected to apply to flow k in scenario s
ExpectedRate(kind, k, s) ==
    LET d == cash_flows[k][1]
        a == cash_flows[k][2]
        r == fx_scenarios[d][s]
    IN CASE kind = "unhedged" -> r
         [] kind = "option" -> IF a > 0 /\ r < spot THEN spot ELSE r
         [] kind = "collar" -> IF a > 0 THEN Clamp(r, (95 * spot) \div 100, (105 * spot) \div 100)
                               ELSE r

\* the discount factor of flow k: the USD curve rate at the flow's maturity
ExpectedDiscount(kind, k) ==
    LET d == cash_flows[k][1]
        t == IF kind = "unhedged" THEN Years365(d) ELSE Tenor(d)
    IN DiscountFactor(interpolate_rate(t, USD_RATES), t)

RECURSIVE ExpectedSum(_, _, _)
ExpectedSum(kind, k, s) ==
    IF k = 0 THEN 0
    ELSE ExpectedSum(kind, k - 1, s)
         + cash_flows[k][2] * ExpectedRate(kind, k, s) * ExpectedDiscount(kind, k)

\* the price of the options bought and sold for flow k, per unit of notional
ExpectedPut(k, strike) ==
    LET t == Tenor(cash_flows[k][1])
    IN black_scholes_price(spot, strike, t, interpolate_rate(t, USD_RATES),
                           interpolate_rate(t, EUR_RATES),
                           np_interp(t, Keys(VolSurface), Values(VolSurface)), "put")
ExpectedCall(k, strike) ==
    LET t == Tenor(cash_flows[k][1])
    IN black_scholes_price(spot, strike, t, interpolate_rate(t, USD_RATES),
                           interpolate_rate(t, EUR_RATES),
                           np_interp(t, Keys(VolSurface), Values(VolSurface)), "call")

RECURSIVE ExpectedPremium(_)
ExpectedPremium(k) ==
    IF k = 0 THEN 0
    ELSE ExpectedPremium(k - 1)
         + (IF cash_flows[k][2] > 0 THEN cash_flows[k][2] * ExpectedPut(k, spot) * 10000 ELSE 0)

RECURSIVE ExpectedNetCost(_)
ExpectedNetCost(k) ==
    IF k = 0 THEN 0
    ELSE ExpectedNetCost(k - 1)
         + (IF cash_flows[k][2] > 0
            THEN cash_flows[k][2] * (ExpectedPut(k, (95 * spot) \div 100)
                                     - ExpectedCall(k, (105 * spot) \div 100)) * 10000
            ELSE 0)

\* C1: with a rate vector for every cash-flow date, calculate_npv returns the
\* N-length distribution whose entry i is the sum over the dates of notional x
\* simulated rate x the discount factor of the date's curve rate.
C1_UnhedgedNpv ==
    (npv_call = "unhedged" /\ AllDatesPresent) =>
        /\ npv_out.kind = "ok"
        /\ DOMAIN npv_out.value = Sims
        /\ \A s \in Sims : npv_out.value[s] = ExpectedSum("unhedged", Len(cash_flows), s)

\* C2: the forward hedge's total_cost is 0 and stays 0 across hedge() calls, and
\* when every cash flow is positive the forward-hedged NPV is returned and is the
\* same in every scenario.
C2_ForwardHedgeLocksRates ==
    /\ forward_hedge # None => forward_hedge.total_cost = 0
    /\ (npv_call = "forward" /\ AllDatesPresent /\ AllFlowsPositive) =>
          /\ npv_out.kind = "ok"
          /\ \A s, t \in Sims : npv_out.value[s] = npv_out.value[t]

\* C3: OptionHedge.hedge converts each positive flow at max(simulated rate, spot)
\* and each other flow at the simulated rate, discounts and sums them, and
\* subtracts the premium accumulated at construction once, undiscounted.
C3_ProtectivePutNpv ==
    (npv_call = "option" /\ AllDatesPresent) =>
        /\ npv_out.kind = "ok"
        /\ option_hedge.premium_paid = ExpectedPremium(Len(cash_flows))
        /\ \A s \in Sims :
              npv_out.value[s] = ExpectedSum("option", Len(cash_flows), s)
                                 - option_hedge.premium_paid

\* a put-hedged valuation of inflows and outflows, with rates below and above spot
C3_Witness ==
    /\ npv_call = "option" /\ npv_out.kind = "ok"
    /\ option_hedge.premium_paid > 0
    /\ \E k \in 1 .. Len(cash_flows) : cash_flows[k][2] < 0
    /\ \E k \in 1 .. Len(cash_flows) :
          /\ cash_flows[k][2] > 0
          /\ \E s, t \in Sims : /\ fx_scenarios[cash_flows[k][1]][s] < spot
                                /\ fx_scenarios[cash_flows[k][1]][t] > spot

\* C4: CollarHedge.hedge converts each positive flow at the simulated rate clamped
\* into [0.95 spot, 1.05 spot] and each other flow at the simulated rate, and
\* subtracts the net cost, the sum over positive flows of notional x (put cost -
\* call proceeds).
C4_CollarNpv ==
    (npv_call = "collar" /\ AllDatesPresent) =>
        /\ npv_out.kind = "ok"
        /\ collar_hedge.put_strike * 100 = 95 * spot
        /\ collar_hedge.call_strike * 100 = 105 * spot
        /\ collar_hedge.net_cost = ExpectedNetCost(Len(cash_flows))
        /\ \A s \in Sims :
              npv_out.value[s] = ExpectedSum("collar", Len(cash_flows), s)
                                 - collar_hedge.net_cost

\* a collared valuation of an inflow and an outflow, with rates under the put
\* strike and over the call strike
C4_Witness ==
    /\ npv_call = "collar" /\ npv_out.kind = "ok"
    /\ collar_hedge.net_cost # 0
    /\ \E k \in 1 .. Len(cash_flows) : cash_flows[k][2] < 0
    /\ \E k \in 1 .. Len(cash_flows) :
          /\ cash_flows[k][2] > 0
          /\ \E s, t \in Sims :
                /\ fx_scenarios[cash_flows[k][1]][s] < collar_hedge.put_strike
                /\ fx_scenarios[cash_flows[k][1]][t] > collar_hedge.call_strike

Sorted(a) == SortSeq(a, LAMBDA x, y : x < y)
Tail_(threshold) == {k \in 1 .. Len(npv_distribution) : npv_distribution[k] <= threshold}
RECURSIVE SumAtOrBelow(_, _)
SumAtOrBelow(k, threshold) ==
    IF k = 0 THEN 0
    ELSE SumAtOrBelow(k - 1, threshold)
         + (IF npv_distribution[k] <= threshold THEN npv_distribution[k] ELSE 0)

\* C5: VaR at confidence c is the (1-c)-quantile by linear interpolation between
\* order statistics; CVaR is the mean of the values at or below it; the selected
\* set of a non-empty distribution is non-empty, so CVaR is defined and at most
\* VaR, and is the single point's value when one point is selected;
\* [-100,-50,0,50,100] at 0.8 gives VaR = -60 and CVaR = -100.
C5_VarCvar ==
    LET n == Len(npv_distribution)
        s == Sorted(npv_distribution)
        h100 == (100 - confidence) * (n - 1)
        lo == h100 \div 100 + 1
        hi == IF lo < n THEN lo + 1 ELSE n
        quantile == calculate_var(npv_distribution, confidence)
        count == Cardinality(Tail_(quantile))
        total == SumAtOrBelow(n, quantile)
    IN /\ var_out.kind = "ok" =>
            /\ 100 * var_out.value = 100 * s[lo] + (h100 % 100) * (s[hi] - s[lo])
            /\ (npv_distribution = <<-10000, -5000, 0, 5000, 10000>> /\ confidence = 80)
                  => var_out.value = -6000
       /\ cvar_out # None =>
            /\ cvar_out.kind = "ok"
            /\ count >= 1
            /\ cvar_out.value * count <= total /\ total < (cvar_out.value + 1) * count
            /\ cvar_out.value <= quantile
            /\ count = 1 => \E k \in 1 .. n : /\ npv_distribution[k] <= quantile
                                              /\ cvar_out.value = npv_distribution[k]
            /\ (npv_distribution = <<-10000, -5000, 0, 5000, 10000>> /\ confidence = 80)
                  => cvar_out.value = -10000

\* VaR and CVaR of an unsorted distribution whose quantile falls between two
\* order statistics and equals none of its points
C5_Witness ==
    /\ var_out.kind = "ok" /\ cvar_out.kind = "ok"
    /\ Len(npv_distribution) >= 3
    /\ npv_distribution # Sorted(npv_distribution)
    /\ \A k \in 1 .. Len(npv_distribution) : npv_distribution[k] # var_out.value
    /\ cvar_out.value < var_out.value

\* the spec's example has been summarised
C5_WitnessExample ==
    /\ npv_distribution = <<-10000, -5000, 0, 5000, 10000>> /\ confidence = 80
    /\ var_out = Ok(-6000) /\ cvar_out = Ok(-10000)

\* --------------------------------------------------------------------------
\* PathSimulator and Calibrator: what the claims expect
\* --------------------------------------------------------------------------
\* v0, kappa, theta, xi > 0, |rho| < 1, 2 kappa theta >= xi^2
ValidParams(p) ==
    /\ p.v0 > 0 /\ p.kappa > 0 /\ p.theta > 0 /\ p.xi > 0
    /\ -100 < p.rho /\ p.rho < 100
    /\ 2 * p.kappa * p.theta >= p.xi * p.xi * 10000

\* C6: two independent calls of simulate_heston_paths with the same seed,
\* parameters and step count both return, and return identical arrays.
C6_SameSeedSameOutput ==
    \A r1, r2 \in DOMAIN run_out :
        (run_out[r1] # None /\ run_out[r2] # None) =>
            /\ run_out[r1].kind = "ok"
            /\ run_out[r1] = run_out[r2]

\* C10 as stated: every value stored in the variance array is non-negative, at
\* every step, for valid parameters and any shocks.
C10_StoredVarianceNonNegative ==
    (heston_args # None /\ ValidParams(heston_args)) =>
        \A i \in DOMAIN var_paths : \A s \in Sims : var_paths[i][s] >= 0

\* C10 as the code has it: row 0 of the variance array is v0 > 0, and the
\* variance each pass of the loop uses in its drift and diffusion terms is the
\* stored variance of the previous row floored at zero, hence non-negative; the
\* stored value itself is whatever the update produced.
C10_VarianceFlooredBeforeUse ==
    (heston_args # None /\ ValidParams(heston_args) /\ heston_pc # "idle") =>
        /\ \A s \in Sims : var_paths[1][s] = heston_args.v0 /\ var_paths[1][s] > 0
        /\ step_i >= 2 =>
              \A s \in Sims :
                 /\ var_pos_used[s] >= 0
                 /\ var_pos_used[s] >= var_paths[step_i - 1][s]
                 /\ var_pos_used[s] \in {0, var_paths[step_i - 1][s]}

\* the call returned an array in which a negative variance was stored and then
\* floored by the next pass
C10_Witness ==
    /\ heston_pc = "done"
    /\ step_i >= 3
    /\ \E s \in Sims : var_paths[step_i - 1][s] < 0 /\ var_pos_used[s] = 0

\* C9: the objective returns a very large value, and does not raise, for a trial
\* vector that violates positivity, |rho| < 1 or the Feller condition; and
\* calibrate_heston_to_atm returns a valid parameter set or raises
\* InvalidParameterError, never an infeasible set.
C9_CalibrationFeasible ==
    /\ (trial_x # <<>> /\ ~ValidParams(calibrate_result(trial_x).value)) =>
          obj_out = Ok(PENALTY)
    /\ calib_out # None =>
          \/ calib_out.kind = "ok" /\ ValidParams(calib_out.value)
          \/ calib_out.kind = "InvalidParameterError"


\* --------------------------------------------------------------------------
\* scenario extraction: what the claim expects
\* --------------------------------------------------------------------------
\* the integer nearest to days / 365 / dt; halves never occur, 365 being odd
NearestStep(days) == (2 * days * STEPS_PER_YEAR + 365) \div (2 * 365)

\* C11: when simulate_fx_for_dates has returned, for every requested date on or
\* after the analysis date the step taken is the integer nearest to
\* (elapsed years / dt), that index lies within [0, steps] of the grid simulated
\* to the latest requested date, and the vector returned for the date is the
\* grid row of that index.
C11_NearestStepExtraction ==
    extract_pc = "done" =>
        /\ extract_out.kind = "ok"
        /\ \A k \in 1 .. Len(extract_args.dates) :
              LET days == extract_args.dates[k]
                  nearest == NearestStep(days)
              IN /\ step_taken[k] = nearest
                 /\ 0 <= nearest /\ nearest <= Len(grid_paths) - 1
                 /\ extract_out.value[days] = grid_paths[nearest + 1]

\* what the code does instead: the step taken is the integer part of
\* (elapsed years / dt), it lies within [0, steps], and the vector returned is
\* the grid row of that index
C11_TruncatedStepInRange ==
    extract_pc = "done" =>
        /\ extract_out.kind = "ok"
        /\ Len(grid_paths) - 1 = ExtractStep(MaxDays(extract_args.dates, 1))
        /\ \A k \in 1 .. Len(extract_args.dates) :
              LET days == extract_args.dates[k]
                  floor == CHOOSE n \in 0 .. days :
                              n * 365 <= days * 252 /\ days * 252 < (n + 1) * 365
              IN /\ step_taken[k] = floor
                 /\ 0 <= floor /\ floor <= Len(grid_paths) - 1
                 /\ extract_out.value[days] = grid_paths[floor + 1]

\* a call has returned a date whose nearest step is not the step below it
C11_TruncatedWitness ==
    /\ extract_pc = "done"
    /\ extract_out.kind = "ok"
    /\ \E k \in 1 .. Len(extract_args.dates) :
          /\ NearestStep(extract_args.dates[k]) = step_taken[k] + 1
          /\ extract_args.dates[k] < MaxDays(extract_args.dates, 1)
          /\ grid_paths[step_taken[k] + 1] # grid_paths[step_taken[k] + 2]

====
